---- MODULE Spec2Model ----
(***************************************************************************)
(* The prediction runner of cog (python/cog/server/runner.py): the         *)
(* single-flight PredictionRunner, the setup and predict driving tasks and *)
(* the PredictionEventHandler that turns worker events into a response.    *)
(*                                                                         *)
(* Scheduling is asyncio's: a task runs from one `await asyncio.sleep(0)`  *)
(* to the next without interruption, the caller operations (predict,       *)
(* setup, is_busy, cancel, shutdown) are synchronous and run between two   *)
(* task steps, and a finished task's done-callbacks run in a later loop    *)
(* iteration.                                                              *)
(***************************************************************************)
EXTENDS Integers, Sequences, FiniteSets, TLC

\* Bounds of the model: the driving tasks the callers spawn in one run and
\* the events the worker emits in one run, over all its streams.
MaxTasks == 2
MaxEvents == 2
\* The same for the runs of one job with its notifications and uploads.
MaxJobTasks == 2
MaxJobEvents == 4
\* The same for the runs of one job with its notification filter.
MaxHookTasks == 1
MaxHookEvents == 3

\* Python's None, for task handles, identities and strings.
NoTask == 0
NoId == "None"

PredictionIds == {"p1", "p2"}
Payloads == {"a", "file"}
LogMessage == "log"
Traceback == "traceback"

\* The texts of the source.
UnexpectedOutput == "Predictor returned unexpected output"
MultipleOutputs == "Predictor unexpectedly returned multiple outputs"
UploadFailed == "Got error trying to upload output files"
MissingDone == "Error: did not receive 'done' event from setup!"
WorkerError == "worker error"
DownloadError == "download error"

\* schema.WebhookEvent.default_events()
default_events == {"start", "output", "logs", "completed"}

\* webhook.SKIP_START_EVENT (an environment switch, off by default)
SKIP_START_EVENT == FALSE

VARIABLES
    response,        \* self._response: handle of the stored response, or NoTask
    result,          \* self._result: handle of the stored task, or NoTask
    should_cancel,   \* self._should_cancel (asyncio.Event)
    shutdown_event,  \* self._shutdown_event (threading.Event): "clear", "set"
    tasks,           \* the tasks something can still read, by handle
    worker,          \* the Worker collaborator: "running" or "terminated"
    probes,          \* number of ProbeHelper().ready() calls
    tasks_left,      \* tasks the callers may still spawn
    events_left,     \* events the worker may still emit
    ret              \* what the last caller operation returned or raised

vars == <<response, result, should_cancel, shutdown_event, tasks, worker,
          probes, tasks_left, events_left, ret>>

(***************************************************************************)
(* Values                                                                  *)
(***************************************************************************)

\* p.output: None, one value, or a list of values.
NoOutput == [kind |-> "none", items |-> <<>>]
Value(v) == [kind |-> "value", items |-> <<v>>]
List(vs) == [kind |-> "list", items |-> vs]

\* An optional string: <<>> is None, <<s>> is the string s.
NoError == <<>>

\* The requests a caller submits: prediction.id, prediction.webhook,
\* prediction.webhook_events_filter (None, or a list, here <<the set of its
\* tags>>) and the `upload` argument of predict.
Identities == PredictionIds \cup {NoId}
NoFilter == <<>>
Filters ==
    {NoFilter, <<{}>>, <<{"completed"}>>, <<{"output", "completed"}>>,
     <<{"start", "logs"}>>}
Requests ==
    [id : Identities, webhook : {TRUE}, webhook_events_filter : {NoFilter},
     upload : {FALSE}]
JobRequests ==
    [id : {NoId}, webhook : BOOLEAN, webhook_events_filter : {NoFilter},
     upload : BOOLEAN]
HookRequests ==
    [id : {NoId}, webhook : {TRUE}, webhook_events_filter : Filters,
     upload : {FALSE}]

\* Done.error_detail of a failed prediction: str(e) of the predictor's error.
ErrorDetails == {"worker error", ""}

\* The events of worker.predict; "Other" is any value of no known event type.
PredictEvents ==
    {[type |-> "Heartbeat"], [type |-> "Log"], [type |-> "Other"]}
    \cup [type : {"OutputType"}, multi : BOOLEAN]
    \cup [type : {"Output"}, payload : Payloads]
    \cup {[type |-> "Done", canceled |-> TRUE, error |-> FALSE,
           error_detail |-> ""],
          [type |-> "Done", canceled |-> FALSE, error |-> FALSE,
           error_detail |-> ""]}
    \cup [type : {"Done"}, canceled : {FALSE}, error : {TRUE},
          error_detail : ErrorDetails]

\* The events of worker.predict that decide how a task ends.
RunnerEvents ==
    {[type |-> "Heartbeat"], [type |-> "Output", payload |-> "a"],
     [type |-> "Done", canceled |-> TRUE, error |-> FALSE, error_detail |-> ""],
     [type |-> "Done", canceled |-> FALSE, error |-> FALSE, error_detail |-> ""]}

\* The events of worker.predict that make the handler notify.
HookEvents ==
    {[type |-> "Log"], [type |-> "OutputType", multi |-> TRUE],
     [type |-> "Output", payload |-> "a"],
     [type |-> "Done", canceled |-> FALSE, error |-> FALSE, error_detail |-> ""]}

\* The events of worker.setup.
SetupEvents ==
    {[type |-> "Log"], [type |-> "Other"],
     [type |-> "Done", error |-> TRUE], [type |-> "Done", error |-> FALSE]}

(***************************************************************************)
(* PredictionEventHandler.  `t` is the record of a predict task: t.p is    *)
(* the response the handler owns, t.hooks the notifications delivered.     *)
(***************************************************************************)

\* webhook_caller_filtered(webhook, set(events_filter)): delivers the
\* response when the event tag is in the filter.
webhook_sender(t, event) ==
    IF event \in t.sender.filter
    THEN [t EXCEPT !.hooks = Append(@, event)]
    ELSE t

_send_webhook(t, event) ==
    IF t.sender.on THEN webhook_sender(t, event) ELSE t

\* upload_files(output, upload_file): file-like content becomes a reference.
file_uploader(output) == IF output = "file" THEN "url" ELSE output

\* _upload_files: the value stored, and whether FileUploadError is raised
\* (`broken` says that the remote store refuses the upload).
_upload_files(t, output) ==
    IF t.uploader THEN file_uploader(output) ELSE output

_upload_files_raises(t, output, broken) ==
    t.uploader /\ output = "file" /\ broken

append_logs(t, logs) ==
    _send_webhook([t EXCEPT !.p.logs = Append(@, logs)], "logs")

succeeded(t) ==
    _send_webhook([t EXCEPT !.p.status = "succeeded",
                            !.p.completed_at = TRUE,
                            !.p.metrics = TRUE], "completed")

failed(t, error) ==
    _send_webhook([t EXCEPT !.p.status = "failed",
                            !.p.error = <<error>>,
                            !.p.completed_at = TRUE], "completed")

canceled(t) ==
    _send_webhook([t EXCEPT !.p.status = "canceled",
                            !.p.completed_at = TRUE], "completed")

\* `x or y` takes y when x is None or an empty list.
truthy(events_filter) == events_filter # NoFilter /\ events_filter[1] # {}

\* create_event_handler and PredictionEventHandler.__init__: the response
\* of a new predict task.
create_event_handler(t, prediction) ==
    LET events_filter ==
            IF truthy(prediction.webhook_events_filter)
            THEN prediction.webhook_events_filter[1]
            ELSE default_events
        h == [t EXCEPT
                !.request = prediction,
                !.p = [id |-> prediction.id, status |-> "processing",
                       output |-> NoOutput, logs |-> <<>>, error |-> NoError,
                       completed_at |-> FALSE, metrics |-> FALSE],
                !.sender = IF prediction.webhook
                           THEN [on |-> TRUE, filter |-> events_filter]
                           ELSE [on |-> FALSE, filter |-> {}],
                !.uploader = prediction.upload]
    IN IF SKIP_START_EVENT THEN h ELSE _send_webhook(h, "start")

\* What a piece of the event loop ends in: it goes on, leaves the loop
\* (break), or raises the exception `exc`.
Ok(t) == [t |-> t, how |-> "ok", exc |-> ""]
Break(t) == [t |-> t, how |-> "break", exc |-> ""]
Raise(t, exc) == [t |-> t, how |-> "raise", exc |-> exc]

set_output(t, output, broken) ==
    IF t.p.output.kind # "none" THEN Raise(t, MultipleOutputs)
    ELSE IF _upload_files_raises(t, output, broken) THEN Raise(t, UploadFailed)
    ELSE Ok([t EXCEPT !.p.output = Value(_upload_files(t, output))])

\* set_output([]): an empty list holds nothing to upload.
set_output_list(t) ==
    IF t.p.output.kind # "none" THEN Raise(t, MultipleOutputs)
    ELSE Ok([t EXCEPT !.p.output = List(<<>>)])

\* append_output that puts the new value in front of the others.
append_output_first(t, output, broken) ==
    IF _upload_files_raises(t, output, broken) THEN Raise(t, UploadFailed)
    ELSE Ok(_send_webhook(
              [t EXCEPT !.p.output.items = <<_upload_files(t, output)>> \o @],
              "output"))

append_output(t, output, broken) ==
    IF t.p.output.kind # "list"
    THEN Raise(t, "Cannot append output before setting output")
    ELSE IF _upload_files_raises(t, output, broken) THEN Raise(t, UploadFailed)
    ELSE Ok(_send_webhook(
              [t EXCEPT !.p.output.items = Append(@, _upload_files(t, output))],
              "output"))

(***************************************************************************)
(* The driving tasks                                                       *)
(***************************************************************************)

\* The task is done: its done-callbacks are scheduled.
Finish(t, outcome) ==
    [t EXCEPT !.pc = "done", !.outcome = outcome, !.callbacks = "pending"]

\* A poll point that clears the flag without telling the worker.
poll_cancel_silent(t, flag) == t

\* The poll point of _predict: worker.cancel() when the flag is set.
poll_cancel(t, flag) ==
    IF flag THEN [t EXCEPT !.cancels = @ + 1] ELSE t

\* The job is failed for its output shape, and the loop goes on.
unexpected_output_goes_on(t) == Ok(failed(t, UnexpectedOutput))

\* A second shape, or an output before any shape: the job is failed and
\* the loop is left.
unexpected_output(t) == Break(failed(t, UnexpectedOutput))

\* The body of the loop of _predict for one event, after the poll point.
_predict_event(t, event, broken) ==
    CASE event.type = "Heartbeat" -> Ok(t)
      [] event.type = "Log" -> Ok(append_logs(t, LogMessage))
      [] event.type = "OutputType" ->
            IF t.output_type # "none"
            THEN unexpected_output(t)
            ELSE LET u == [t EXCEPT !.output_type =
                              IF event.multi THEN "multi" ELSE "single"]
                 IN IF event.multi THEN set_output_list(u) ELSE Ok(u)
      [] event.type = "Output" ->
            IF t.output_type = "none"
            THEN unexpected_output(t)
            ELSE IF t.output_type = "multi"
            THEN append_output(t, event.payload, broken)
            ELSE set_output(t, event.payload, broken)
      [] event.type = "Done" ->
            IF event.canceled THEN Ok(canceled(t))
            ELSE IF event.error THEN Ok(failed(t, event.error_detail))
            ELSE Ok(succeeded(t))
      [] OTHER -> Ok(t)

\* An except clause that records the failure and swallows it.
predict_except_contained(t, exc) ==
    Finish(failed(append_logs(t, Traceback), exc), "returned")

\* The except clause of predict: the failure is recorded and raised again.
predict_except(t, exc) ==
    Finish(failed(append_logs(t, Traceback), exc), "raised")

\* A download failure that leaves _predict as an exception.
_predict_download_raises(t) == predict_except(t, DownloadError)

\* _predict that fails a job whose stream has ended, as setup does.
_predict_return_failed(t) == Finish(failed(t, MissingDone), "returned")

\* _predict after its loop: the response is returned as it stands.
_predict_return(t) == Finish(t, "returned")

\* The URLPath inputs of _predict could not be fetched.
_predict_download_failed(t) ==
    Finish(failed(append_logs(t, Traceback), DownloadError), "returned")

(***************************************************************************)
(* PredictionRunner                                                        *)
(***************************************************************************)

\* A task that asyncio.create_task has just made; p is the response of a
\* predict task, logs and status are the locals of a setup task, event is
\* the loop variable of both, request is the `request` argument of the
\* predict coroutine, invoked says that worker.predict was called and
\* done_seen that its stream has held a Done event, asked that
\* cancel has set the flag while the task was outstanding, and stale_cancel
\* that the flag was set when predict admitted the job.  stream is the history of a setup task: the
\* events worker.setup has yielded to it, and Raised if it then raised.
NoEvent == [type |-> "none"]
Raised == [type |-> "raise"]

NoResponse ==
    [id |-> NoId, status |-> "none", output |-> NoOutput, logs |-> <<>>,
     error |-> NoError, completed_at |-> FALSE, metrics |-> FALSE]

NoRequest ==
    [id |-> NoId, webhook |-> FALSE, webhook_events_filter |-> NoFilter,
     upload |-> FALSE]

create_task(kind) ==
    [kind |-> kind, pc |-> "start", outcome |-> "none", must_cancel |-> FALSE,
     callbacks |-> "none", request |-> NoRequest, p |-> NoResponse,
     sender |-> [on |-> FALSE, filter |-> {}], uploader |-> FALSE,
     hooks |-> <<>>, output_type |-> "none", cancels |-> 0,
     logs |-> <<>>, status |-> "none", ready |-> FALSE,
     event |-> NoEvent, stream |-> <<>>, invoked |-> FALSE,
     done_seen |-> FALSE, asked |-> FALSE, stale_cancel |-> FALSE]

\* The model keeps a task only while something can still read it: the
\* record of a finished task that the runner no longer stores is cut down
\* to what its pending done-callbacks read, and dropped once they ran.
Unread(t) ==
    [create_task(t.kind) EXCEPT !.pc = "done", !.outcome = t.outcome,
                                !.callbacks = t.callbacks]

Live(ts, stored) ==
    [h \in {k \in DOMAIN ts : \/ k \in stored
                              \/ ts[k].pc # "done"
                              \/ ts[k].callbacks # "ran"} |->
        IF h \notin stored /\ ts[h].pc = "done" THEN Unread(ts[h]) ELSE ts[h]]

\* The handle of a new task: a number no task had before.
NewHandle == tasks_left

Returned(op, value) ==
    [op |-> op, value |-> value, response |-> NoTask, task |-> NoTask]

\* is_busy that leaves a finished task stored.
is_busy_keeps ==
    [busy |-> result # NoTask /\ tasks[result].pc # "done",
     response |-> response, result |-> result]

\* is_busy: what it returns, and the stored response and task after it.
is_busy ==
    IF result = NoTask
    THEN [busy |-> FALSE, response |-> response, result |-> result]
    ELSE IF tasks[result].pc # "done"
    THEN [busy |-> TRUE, response |-> response, result |-> result]
    ELSE [busy |-> FALSE, response |-> NoTask, result |-> NoTask]

IsBusy ==
    /\ response' = is_busy.response
    /\ result' = is_busy.result
    /\ tasks' = Live(tasks, {is_busy.response, is_busy.result})
    /\ ret' = Returned("is_busy", IF is_busy.busy THEN "True" ELSE "False")
    /\ UNCHANGED <<should_cancel, shutdown_event, worker, probes,
                   tasks_left, events_left>>

\* setup that does not ask is_busy.
setup_unguarded == FALSE

\* The guard of PredictionRunner.setup.
setup_busy == is_busy.busy

\* PredictionRunner.setup
Setup ==
    IF setup_busy
    THEN /\ ret' = Returned("setup", "RunnerBusyError")
         /\ UNCHANGED <<response, result, should_cancel, shutdown_event,
                        tasks, worker, probes, tasks_left, events_left>>
    ELSE /\ tasks_left > 0
         /\ tasks_left' = tasks_left - 1
         /\ tasks' = Live((NewHandle :> create_task("setup")) @@ tasks,
                          {is_busy.response, NewHandle})
         /\ result' = NewHandle
         /\ response' = is_busy.response
         /\ ret' = [op |-> "setup", value |-> "task", response |-> NoTask,
                    task |-> NewHandle]
         /\ UNCHANGED <<should_cancel, shutdown_event, worker, probes,
                        events_left>>

\* predict that compares the identities without asking for one.
predict_same_any(prediction) ==
    /\ is_busy.response # NoTask
    /\ prediction.id = tasks[is_busy.response].p.id

\* predict that knows no request in flight.
predict_same_never(prediction) == FALSE

\* The guards of PredictionRunner.predict while busy: the request is the
\* one in flight.
predict_same(prediction) ==
    /\ is_busy.response # NoTask
    /\ prediction.id # NoId
    /\ prediction.id = tasks[is_busy.response].p.id

\* predict that leaves the cancellation flag as it finds it.
predict_should_cancel_kept == should_cancel

\* self._should_cancel.clear() of predict: the flag after it.
predict_should_cancel == FALSE

\* PredictionRunner.predict
Predict(prediction) ==
    IF is_busy.busy
    THEN /\ IF predict_same(prediction)
            THEN ret' = [op |-> "predict", value |-> "existing",
                         response |-> response, task |-> result]
            ELSE ret' = Returned("predict", "RunnerBusyError")
         /\ UNCHANGED <<response, result, should_cancel, shutdown_event,
                        tasks, worker, probes, tasks_left, events_left>>
    ELSE /\ tasks_left > 0
         /\ tasks_left' = tasks_left - 1
         /\ should_cancel' = predict_should_cancel
         /\ tasks' = Live((NewHandle :>
                              [create_event_handler(create_task("predict"),
                                                    prediction)
                                  EXCEPT !.stale_cancel = should_cancel])
                          @@ tasks,
                          {NewHandle})
         /\ response' = NewHandle
         /\ result' = NewHandle
         /\ ret' = [op |-> "predict", value |-> "new",
                    response |-> NewHandle, task |-> NewHandle]
         /\ UNCHANGED <<shutdown_event, worker, probes, events_left>>

\* cancel that compares the identities without asking for one.
cancel_unknown_any(prediction_id) ==
    prediction_id # tasks[is_busy.response].p.id

\* The guard of PredictionRunner.cancel: the identity is not the active one.
cancel_unknown(prediction_id) ==
    /\ prediction_id # NoId
    /\ prediction_id # tasks[is_busy.response].p.id

\* PredictionRunner.cancel
Cancel(prediction_id) ==
    /\ response' = is_busy.response
    /\ result' = is_busy.result
    /\ IF ~is_busy.busy
       THEN ret' = Returned("cancel", "None") /\ UNCHANGED should_cancel
       ELSE IF is_busy.response = NoTask
       THEN ret' = Returned("cancel", "AssertionError")
            /\ UNCHANGED should_cancel
       ELSE IF cancel_unknown(prediction_id)
       THEN ret' = Returned("cancel", "UnknownPredictionError")
            /\ UNCHANGED should_cancel
       ELSE ret' = Returned("cancel", "set") /\ should_cancel' = TRUE
    /\ tasks' = Live(IF ret'.value = "set"
                     THEN [tasks EXCEPT ![result].asked = TRUE]
                     ELSE tasks,
                     {is_busy.response, is_busy.result})
    /\ UNCHANGED <<shutdown_event, worker, probes, tasks_left, events_left>>

\* Task.cancel() that ends the task at once.
task_cancel_now(t) == Finish(t, "cancelled")

\* Task.cancel() asks a task that is not done to raise CancelledError at
\* its next step.
task_cancel(t) == [t EXCEPT !.must_cancel = TRUE]

\* PredictionRunner.shutdown
Shutdown ==
    /\ tasks' = IF result # NoTask /\ tasks[result].pc # "done"
                THEN [tasks EXCEPT ![result] = task_cancel(@)]
                ELSE tasks
    /\ worker' = "terminated"
    /\ ret' = Returned("shutdown", "None")
    /\ UNCHANGED <<response, result, should_cancel, shutdown_event, probes,
                   tasks_left, events_left>>

\* handle_error that clears the event when the task did not raise.
handle_error_resets(t) ==
    IF t.outcome = "raised" THEN "set" ELSE "clear"

\* handle_error of make_error_handler: the shutdown event after it
\* (task.exception() of a cancelled task raises, and nothing is set).
handle_error(t) ==
    IF t.outcome = "raised" THEN "set" ELSE shutdown_event

\* The done-callbacks of a task: handle_cleanup, then handle_error.
Callbacks(h) ==
    /\ tasks[h].callbacks = "pending"
    /\ shutdown_event' = handle_error(tasks[h])
    /\ tasks' = Live([tasks EXCEPT ![h].callbacks = "ran"],
                     {response, result})
    /\ UNCHANGED <<response, result, should_cancel, worker, probes,
                   tasks_left, events_left, ret>>

\* The next event of worker.predict is asked for: the generator yields one
\* (the task suspends at `await asyncio.sleep(0)`), is exhausted (_predict
\* returns the response) or raises (the except clause of predict).
PredictFetch(h, t) ==
    LET w == [t EXCEPT !.invoked = TRUE]
    IN \/ /\ events_left > 0
          /\ events_left' = events_left - 1
          /\ tasks' = [tasks EXCEPT ![h] = [w EXCEPT !.pc = "await"]]
       \/ /\ tasks' = [tasks EXCEPT ![h] = _predict_return(w)]
          /\ UNCHANGED events_left
       \/ /\ tasks' = [tasks EXCEPT ![h] = predict_except(w, WorkerError)]
          /\ UNCHANGED events_left

\* A task that Task.cancel() was called on raises CancelledError when it
\* is stepped next; no except clause of the source catches it.
Cancelled(h) ==
    /\ tasks[h].pc # "done"
    /\ tasks[h].must_cancel
    /\ tasks' = [tasks EXCEPT ![h] = Finish(@, "cancelled")]
    /\ UNCHANGED <<response, result, should_cancel, shutdown_event, worker,
                   probes, tasks_left, events_left, ret>>

\* predict/_predict up to the first await: the URLPath inputs are fetched.
PredictStart(h) ==
    /\ tasks[h].kind = "predict" /\ tasks[h].pc = "start"
    /\ ~tasks[h].must_cancel
    /\ \/ /\ tasks' = [tasks EXCEPT ![h] = _predict_download_failed(@)]
          /\ UNCHANGED events_left
       \/ PredictFetch(h, tasks[h])
    /\ UNCHANGED <<response, result, should_cancel, shutdown_event, worker,
                   probes, tasks_left, ret>>

\* _predict from one await to the next: the poll point, one event, and the
\* request for the next event.
PredictResume(h, events) ==
    /\ tasks[h].kind = "predict" /\ tasks[h].pc = "await"
    /\ ~tasks[h].must_cancel
    /\ should_cancel' = FALSE
    /\ \E event \in events, broken \in BOOLEAN :
          LET r == _predict_event(
                       poll_cancel(
                           [tasks[h] EXCEPT
                               !.event = event,
                               !.done_seen = @ \/ event.type = "Done"],
                           should_cancel),
                       event, broken)
          IN CASE r.how = "raise" ->
                    /\ tasks' = [tasks EXCEPT ![h] = predict_except(r.t, r.exc)]
                    /\ UNCHANGED events_left
               [] r.how = "break" ->
                    /\ tasks' = [tasks EXCEPT ![h] = _predict_return(r.t)]
                    /\ UNCHANGED events_left
               [] OTHER -> PredictFetch(h, r.t)
    /\ UNCHANGED <<response, result, shutdown_event, worker, probes,
                   tasks_left, ret>>

\* The body of the loop of setup for one event.
setup_event(t, event) ==
    CASE event.type = "Log" -> [t EXCEPT !.logs = Append(@, LogMessage)]
      [] event.type = "Done" ->
            [t EXCEPT !.status = IF event.error THEN "failed" ELSE "succeeded"]
      [] OTHER -> t

\* The except clause of setup.
setup_except(t) ==
    [t EXCEPT !.logs = Append(@, Traceback), !.status = "failed"]

\* setup after its loop: the missing-done diagnostic and the SetupResult.
setup_result(t) ==
    IF t.status = "none"
    THEN [t EXCEPT !.logs = Append(@, MissingDone), !.status = "failed"]
    ELSE t

\* setup that marks the container ready whatever the status.
setup_ready_always(t) == TRUE

\* setup marks the container ready only if it succeeded.
setup_ready(t) == t.status = "succeeded"

SetupReturn(h, t) ==
    LET r == setup_result(t)
    IN /\ tasks' = [tasks EXCEPT ![h] =
                       Finish([r EXCEPT !.ready = setup_ready(r)], "returned")]
       /\ probes' = IF setup_ready(r) THEN probes + 1 ELSE probes
       /\ UNCHANGED events_left

\* The next event of worker.setup is asked for: as for worker.predict, but
\* setup catches what the generator raises.
SetupFetch(h, t) ==
    \/ /\ events_left > 0
       /\ events_left' = events_left - 1
       /\ tasks' = [tasks EXCEPT ![h] = [t EXCEPT !.pc = "await"]]
       /\ UNCHANGED probes
    \/ SetupReturn(h, t)
    \/ SetupReturn(h, setup_except([t EXCEPT !.stream = Append(@, Raised)]))

SetupStart(h) ==
    /\ tasks[h].kind = "setup" /\ tasks[h].pc = "start"
    /\ ~tasks[h].must_cancel
    /\ SetupFetch(h, tasks[h])
    /\ UNCHANGED <<response, result, should_cancel, shutdown_event, worker,
                   tasks_left, ret>>

SetupResume(h) ==
    /\ tasks[h].kind = "setup" /\ tasks[h].pc = "await"
    /\ ~tasks[h].must_cancel
    /\ \E event \in SetupEvents :
          SetupFetch(h, setup_event([tasks[h] EXCEPT
                                         !.event = event,
                                         !.stream = Append(@, event)],
                                    event))
    /\ UNCHANGED <<response, result, should_cancel, shutdown_event, worker,
                   tasks_left, ret>>

(***************************************************************************)
(* The specifications                                                      *)
(***************************************************************************)

Start(maxTasks, maxEvents) ==
    /\ response = NoTask
    /\ result = NoTask
    /\ should_cancel = FALSE
    /\ shutdown_event = "clear"
    /\ tasks = <<>>
    /\ worker = "running"
    /\ probes = 0
    /\ tasks_left = maxTasks
    /\ events_left = maxEvents
    /\ ret = Returned("init", "None")

Handles == DOMAIN tasks

Step(events) ==
    \/ \E h \in Handles : Callbacks(h)
    \/ \E h \in Handles : PredictStart(h)
    \/ \E h \in Handles : PredictResume(h, events)

\* The runner under all its caller operations.
Init == Start(MaxTasks, MaxEvents)

Next ==
    \/ IsBusy
    \/ Setup
    \/ \E prediction \in Requests : Predict(prediction)
    \/ \E prediction_id \in Identities : Cancel(prediction_id)
    \/ Shutdown
    \/ \E h \in Handles : Cancelled(h)
    \/ \E h \in Handles : SetupStart(h)
    \/ \E h \in Handles : SetupResume(h)
    \/ Step(RunnerEvents)

Spec == Init /\ [][Next]_vars

\* One job after the other, with their notifications and uploads.
InitJob == Start(MaxJobTasks, MaxJobEvents)

NextJob ==
    \/ \E prediction \in JobRequests : Predict(prediction)
    \/ Step(PredictEvents)

SpecJob == InitJob /\ [][NextJob]_vars

\* One job after the other, with their notification filters.
InitHooks == Start(MaxHookTasks, MaxHookEvents)

NextHooks ==
    \/ \E prediction \in HookRequests : Predict(prediction)
    \/ Step(HookEvents)

SpecHooks == InitHooks /\ [][NextHooks]_vars

(***************************************************************************)
(* The claims                                                              *)
(***************************************************************************)

\* A task is outstanding: the runner stores a task that is not done.
Outstanding == result # NoTask /\ tasks[result].pc # "done"
StoredDone == result # NoTask /\ tasks[result].pc = "done"

\* The request has the identity of the outstanding predict job.
SameJob(id) ==
    tasks[result].kind = "predict" /\ id # NoId /\ id = tasks[result].p.id

\* C1: at every moment at most one driving task (setup or predict) is not
\* done, and it is the task the runner stores; so a task is spawned only
\* when the runner stores no task or a finished one.
C1_SingleFlight ==
    /\ Cardinality({h \in DOMAIN tasks : tasks[h].pc # "done"}) <= 1
    /\ \A h \in DOMAIN tasks : tasks[h].pc # "done" => h = result

\* A second task is running after the first one finished.
C1_Witness ==
    /\ tasks_left <= MaxTasks - 2
    /\ Outstanding
    /\ tasks[result].pc = "await"

\* C2: while a task is outstanding, predict raises RunnerBusyError unless
\* the request has an identity and it is the identity of the outstanding
\* predict job (then the stored pair is returned), and setup always raises
\* RunnerBusyError; neither changes the stored task.
C2_BusyRejects ==
    [][/\ \A r \in Requests :
            (Outstanding /\ Predict(r)) =>
                /\ ret'.value = IF SameJob(r.id) THEN "existing"
                                ELSE "RunnerBusyError"
                /\ UNCHANGED <<tasks, result, response>>
       /\ (Outstanding /\ Setup) =>
                /\ ret'.value = "RunnerBusyError"
                /\ UNCHANGED <<tasks, result, response>>]_vars

\* predict was refused while a predict job without identity is in flight.
C2_Witness ==
    /\ Outstanding
    /\ tasks[result].kind = "predict"
    /\ tasks[result].p.id = NoId
    /\ ret.op = "predict"
    /\ ret.value = "RunnerBusyError"

\* C3: when the stored task is done, is_busy returns False and clears the
\* stored response and task, and predict admits any request with a new
\* response and a new task; predict never returns a task that is done.
C3_Reclaims ==
    [][/\ (StoredDone /\ IsBusy) =>
            ret'.value = "False" /\ response' = NoTask /\ result' = NoTask
       /\ \A r \in Requests :
            (StoredDone /\ Predict(r)) =>
                /\ ret'.value = "new"
                /\ ret'.task \notin DOMAIN tasks
                /\ ret'.response \notin DOMAIN tasks
                /\ result' = ret'.task
                /\ response' = ret'.response
                /\ tasks'[ret'.task].pc = "start"
                /\ tasks'[ret'.response].p.status = "processing"
                /\ tasks'[ret'.response].p.id = r.id
       /\ \A r \in Requests :
            (Predict(r) /\ ret'.value \in {"new", "existing"}) =>
                tasks'[ret'.task].pc # "done"]_vars

\* A second job was admitted after the first one ended with an exception.
C3_Witness ==
    /\ tasks_left <= MaxTasks - 2
    /\ shutdown_event = "set"
    /\ ret.op = "predict"
    /\ ret.value = "new"
    /\ result = ret.task

\* Task h takes the event tasks'[h].event in this step.
TakesEvent(h) ==
    /\ h \in DOMAIN tasks
    /\ PredictResume(h, PredictEvents)

\* The event task h takes in this step declares a second shape, or is an
\* output before any shape.
ShapeViolation(h) ==
    /\ TakesEvent(h)
    /\ \/ tasks'[h].event.type = "OutputType" /\ tasks[h].output_type # "none"
       \/ tasks'[h].event.type = "Output" /\ tasks[h].output_type = "none"

\* C4: an OutputType event after a shape was declared, or an Output event
\* before any shape, sets the response to failed with the fixed error and
\* ends the task; what a finished task left in its response and what it
\* notified is never changed again.
C4_ShapeViolation ==
    [][\A h \in DOMAIN tasks :
        /\ ShapeViolation(h) =>
              /\ tasks'[h].p.status = "failed"
              /\ tasks'[h].p.error = <<UnexpectedOutput>>
              /\ tasks'[h].pc = "done"
              /\ events_left' = events_left
        /\ (tasks[h].pc = "done" /\ h = response') =>
              /\ tasks'[h].p = tasks[h].p
              /\ tasks'[h].hooks = tasks[h].hooks]_vars

\* A job that declared its shape twice has ended, its callbacks ran, and
\* the worker had more events to give.
C4_Witness ==
    \E h \in DOMAIN tasks :
        /\ tasks[h].event.type = "OutputType"
        /\ tasks[h].p.error = <<UnexpectedOutput>>
        /\ tasks[h].callbacks = "ran"
        /\ events_left > 0

Terminal == {"succeeded", "failed", "canceled"}

\* C5: once the status of a response is succeeded, failed or canceled, no
\* step of its task changes it.
C5_StatusMonotonic ==
    [][\A h \in DOMAIN tasks :
        (tasks[h].pc # "done" /\ tasks[h].p.status \in Terminal) =>
            tasks'[h].p.status = tasks[h].p.status]_vars

Last(seq) == seq[Len(seq)]

\* The event task h takes in this step makes the event handler raise: an
\* Output event under a declared shape that leaves the output as it was
\* (a second output of a single-shape job, or an upload that failed).
TranslationRaises(h) ==
    /\ TakesEvent(h)
    /\ tasks'[h].event.type = "Output"
    /\ tasks[h].output_type # "none"
    /\ tasks'[h].p.output = tasks[h].p.output

\* The exception is recorded in the response of task h.
Recorded(h) ==
    /\ tasks'[h].p.status = "failed"
    /\ tasks'[h].p.error \in {<<MultipleOutputs>>, <<UploadFailed>>}
    /\ Len(tasks'[h].p.logs) = Len(tasks[h].p.logs) + 1
    /\ Last(tasks'[h].p.logs) = Traceback
    /\ tasks'[h].pc = "done"

\* C6 as claimed: an exception raised while an event is translated is
\* recorded in the response, does not leave the task, and the shutdown
\* event is not set by the callbacks of a predict task.
C6_Contained ==
    [][\A h \in DOMAIN tasks :
        /\ TranslationRaises(h) =>
              Recorded(h) /\ tasks'[h].outcome # "raised"
        /\ (/\ tasks[h].p.error \in {<<MultipleOutputs>>, <<UploadFailed>>}
            /\ Callbacks(h)) =>
              shutdown_event' = shutdown_event]_vars

\* C6: an exception raised while an event is translated is recorded in the
\* response (failed, the error text, the trace appended to the logs) and is
\* raised again, so that it ends the task; the callbacks of that task set
\* the shutdown event; predict admits the next request all the same.
C6_RecordedAndRaised ==
    [][/\ \A h \in DOMAIN tasks :
            /\ TranslationRaises(h) =>
                  Recorded(h) /\ tasks'[h].outcome = "raised"
            /\ (tasks[h].outcome = "raised" /\ Callbacks(h)) =>
                  shutdown_event' = "set"
       /\ \A r \in JobRequests :
            (StoredDone /\ tasks[result].outcome = "raised" /\ Predict(r)) =>
                ret'.value = "new" /\ result' = ret'.task]_vars

\* An upload failed, the task ended with the exception and its callbacks
\* set the shutdown event.
C6_Witness ==
    /\ StoredDone
    /\ tasks[result].p.error = <<UploadFailed>>
    /\ tasks[result].outcome = "raised"
    /\ tasks[result].callbacks = "ran"
    /\ shutdown_event = "set"

\* C7 as claimed: once the shutdown event is set, no request and no setup
\* is admitted and no task is spawned.
C7_Terminal ==
    [][shutdown_event = "set" =>
          /\ tasks_left' = tasks_left
          /\ ret' # ret => ret'.value \notin {"new", "task"}]_vars

\* C7: once the shutdown event is set it stays set, and that is all: the
\* runner still admits a request or a setup as soon as no task is
\* outstanding.
C7_SignalOnly ==
    [][shutdown_event = "set" =>
          /\ shutdown_event' = "set"
          /\ \A r \in Requests :
                (~Outstanding /\ Predict(r)) =>
                    ret'.value = "new" /\ tasks_left' = tasks_left - 1
          /\ (~Outstanding /\ Setup) =>
                    ret'.value = "task" /\ tasks_left' = tasks_left - 1]_vars

\* After the shutdown event was set, a new task is running.
C7_Witness ==
    /\ shutdown_event = "set"
    /\ Outstanding
    /\ tasks[result].pc = "await"
    /\ tasks_left <= MaxTasks - 2

\* The runner stores a predict task that is not done.
PredictOutstanding == Outstanding /\ tasks[result].kind = "predict"

\* C8: cancel with an identity that is not the one of the outstanding
\* predict job (also when that job has none) raises UnknownPredictionError
\* and leaves the flag as it was; cancel while no task is outstanding
\* returns and leaves the flag as it was; cancel with the identity of the
\* outstanding predict job, or with none, sets the flag.
C8_Cancel ==
    [][\A id \in Identities :
        Cancel(id) =>
            IF ~Outstanding
            THEN ret'.value = "None" /\ should_cancel' = should_cancel
            ELSE IF ~PredictOutstanding
            THEN TRUE
            ELSE IF id # NoId /\ id # tasks[result].p.id
            THEN /\ ret'.value = "UnknownPredictionError"
                 /\ should_cancel' = should_cancel
            ELSE ret'.value = "set" /\ should_cancel' = TRUE]_vars

\* cancel with an identity was refused while the job in flight has none.
C8_Witness ==
    /\ PredictOutstanding
    /\ tasks[result].p.id = NoId
    /\ ret.op = "cancel"
    /\ ret.value = "UnknownPredictionError"
    /\ ~should_cancel

\* C9 as claimed: the flag that cancel set is cleared before the predict
\* task is done.
C9_Observed ==
    \A h \in DOMAIN tasks :
        (tasks[h].kind = "predict" /\ tasks[h].pc = "done" /\ h = result) =>
            ~should_cancel

\* C9: the flag is observed at the next poll point, if the task reaches
\* one: each step that takes an event clears the flag and calls
\* worker.cancel() once if the flag was set, and not at all otherwise; a
\* task that is done without taking a further event (its first step fails
\* or finds the stream empty, or the task is cancelled) leaves the flag
\* as it was and does not call worker.cancel().
C9_PollPoint ==
    [][\A h \in DOMAIN tasks :
        /\ TakesEvent(h) =>
              /\ should_cancel' = FALSE
              /\ tasks'[h].cancels =
                    tasks[h].cancels + IF should_cancel THEN 1 ELSE 0
        /\ (PredictStart(h) \/ Cancelled(h)) =>
              /\ should_cancel' = should_cancel
              /\ tasks'[h].cancels = tasks[h].cancels]_vars

\* cancel set the flag, and the task has since called worker.cancel() once
\* and cleared it.
C9_Witness ==
    /\ PredictOutstanding
    /\ ret.op = "cancel"
    /\ ret.value = "set"
    /\ tasks[result].cancels = 1
    /\ ~should_cancel

\* What the stream of a setup task held: no Done event, an exception at
\* its end, the error of its last Done event, and its log messages.
NoDone(st) == \A i \in 1..Len(st) : st[i].type # "Done"
StreamRaised(st) == Len(st) > 0 /\ Last(st).type = "raise"
LastDoneError(st) ==
    \E i \in 1..Len(st) :
        /\ st[i].type = "Done"
        /\ st[i].error
        /\ \A j \in (i + 1)..Len(st) : st[j].type # "Done"
LogsOf(st) ==
    [i \in 1..Len(SelectSeq(st, LAMBDA e : e.type = "Log")) |-> LogMessage]

\* The setup task h returns its SetupResult in this step.
SetupReturns(h) ==
    /\ tasks[h].kind = "setup"
    /\ tasks[h].pc # "done"
    /\ h \in DOMAIN tasks'
    /\ tasks'[h].pc = "done"
    /\ tasks'[h].outcome = "returned"

C11_ReadyOnce == probes <= 1

\* The tags the request of task h asks for: those of its filter, and all
\* four when it has no filter.
RequestedTags(h) ==
    IF tasks[h].request.webhook_events_filter = NoFilter
    THEN default_events
    ELSE tasks[h].request.webhook_events_filter[1]

\* C12: every notification of a job with a webhook carries a tag of the
\* filter the request asked for, the empty filter included; all four tags
\* are the default of a request without a filter only.
C12_FilterRespected ==
    \A h \in DOMAIN tasks :
        (tasks[h].kind = "predict" /\ tasks[h].request.webhook) =>
            \A i \in 1..Len(tasks[h].hooks) :
                tasks[h].hooks[i] \in RequestedTags(h)

\* C13: a response with status failed has an error message that is not
\* empty, and a response with status canceled has none.
C13_ErrorIffFailed ==
    \A h \in DOMAIN tasks :
        tasks[h].kind = "predict" =>
            /\ tasks[h].p.status = "failed" =>
                  tasks[h].p.error # NoError /\ tasks[h].p.error[1] # ""
            /\ tasks[h].p.status = "canceled" => tasks[h].p.error = NoError

\* What the response holds for a payload: the payload, or the reference
\* to it when the job uploads its files.
Stored(t, payload) ==
    IF t.uploader /\ payload = "file" THEN "url" ELSE payload

\* The "output" notifications among those sent.
Outputs(hooks) == SelectSeq(hooks, LAMBDA tag : tag = "output")

\* C14: in a job of the multi shape, an Output event puts its payload (as
\* stored) at the end of the output and nothing else, and sends one
\* "output" notification, when the job has a webhook that lets the tag
\* through, before anything else is notified and within the step that
\* takes the event; only when the upload of a file fails is the output
\* left as it was, without a notification; no other event changes the
\* output.  So the output after a successful Done is the sequence of the
\* payloads in the order of the stream.
C14_AppendOnly ==
    [][\A h \in DOMAIN tasks :
        (TakesEvent(h) /\ tasks[h].output_type = "multi") =>
            LET t == tasks[h]
                u == tasks'[h]
                sent == IF t.sender.on /\ "output" \in t.sender.filter
                        THEN Append(t.hooks, "output")
                        ELSE t.hooks
            IN IF u.event.type = "Output"
               THEN \/ /\ u.p.output =
                            List(Append(t.p.output.items,
                                        Stored(t, u.event.payload)))
                       /\ Len(u.hooks) >= Len(sent)
                       /\ SubSeq(u.hooks, 1, Len(sent)) = sent
                       /\ Outputs(u.hooks) = Outputs(sent)
                    \/ /\ t.uploader /\ u.event.payload = "file"
                       /\ u.outcome = "raised"
                       /\ u.p.output = t.p.output
                       /\ Outputs(u.hooks) = Outputs(t.hooks)
               ELSE u.p.output = t.p.output]_vars

\* The job of scenario B has succeeded with both payloads in the order of
\* the stream and one "output" notification for each.
C14_Witness ==
    \E h \in DOMAIN tasks :
        /\ tasks[h].output_type = "multi"
        /\ tasks[h].p.status = "succeeded"
        /\ tasks[h].p.output = List(<<"a", "file">>)
        /\ tasks[h].hooks = <<"start", "output", "output", "completed">>

\* The first step of task h ends in a download failure.
DownloadFails(h) ==
    /\ h \in DOMAIN tasks
    /\ PredictStart(h)
    /\ tasks'[h].p.error = <<DownloadError>>

\* C15: when an input cannot be downloaded the response becomes failed with
\* the error and the trace after the logs, worker.predict is not called
\* and yields no event, the task returns its response, its callbacks leave
\* the shutdown event as it was, and predict admits the next request.
C15_DownloadContained ==
    [][/\ \A h \in DOMAIN tasks :
            /\ DownloadFails(h) =>
                  /\ tasks'[h].p.status = "failed"
                  /\ tasks'[h].p.logs = Append(tasks[h].p.logs, Traceback)
                  /\ ~tasks'[h].invoked
                  /\ events_left' = events_left
                  /\ tasks'[h].pc = "done"
                  /\ tasks'[h].outcome = "returned"
            /\ (tasks[h].p.error = <<DownloadError>> /\ Callbacks(h)) =>
                  shutdown_event' = shutdown_event
       /\ \A r \in JobRequests :
            (/\ StoredDone
             /\ tasks[result].p.error = <<DownloadError>>
             /\ Predict(r)) =>
                ret'.value = "new" /\ result' = ret'.task]_vars

\* The download of a job failed, its callbacks ran, and the shutdown event
\* is clear.
C15_Witness ==
    /\ StoredDone
    /\ tasks[result].p.error = <<DownloadError>>
    /\ tasks[result].p.logs = <<Traceback>>
    /\ ~tasks[result].invoked
    /\ tasks[result].callbacks = "ran"
    /\ shutdown_event = "clear"

\* C16 as claimed: shutdown leaves the runner without a stored task and
\* without a stored response.
C16_ShutdownClears ==
    [][Shutdown => result' = NoTask /\ response' = NoTask]_vars

\* C16: shutdown leaves the stored task and the stored response as they
\* are: it terminates the worker and asks an outstanding task to cancel,
\* which is then still not done, so that is_busy returns True and keeps
\* the stored task until the task has ended.
C16_ShutdownKeeps ==
    [][/\ Shutdown =>
            /\ result' = result
            /\ response' = response
            /\ worker' = "terminated"
            /\ Outstanding =>
                  /\ tasks'[result].pc = tasks[result].pc
                  /\ tasks'[result].must_cancel
       /\ (worker = "terminated" /\ Outstanding /\ IsBusy) =>
            ret'.value = "True" /\ result' = result]_vars

\* After shutdown, is_busy has returned True for the task that was asked to
\* cancel.
C16_Witness ==
    /\ worker = "terminated"
    /\ Outstanding
    /\ tasks[result].must_cancel
    /\ ret.op = "is_busy"
    /\ ret.value = "True"

\* C17: predict with the identity of the outstanding predict job returns
\* the stored response and the stored task and changes nothing: no task is
\* spawned, the response and its notifications stay as they are, and the
\* cancellation flag keeps its value.
C17_Resubmit ==
    [][\A r \in Requests :
        (Outstanding /\ SameJob(r.id) /\ Predict(r)) =>
            /\ ret'.value = "existing"
            /\ ret'.response = response
            /\ ret'.task = result
            /\ UNCHANGED <<response, result, tasks, tasks_left, should_cancel,
                           shutdown_event, worker, probes, events_left>>]_vars

\* The job in flight was submitted again while its cancellation is
\* pending, and still has its one "start" notification.
C17_Witness ==
    /\ PredictOutstanding
    /\ ret.op = "predict"
    /\ ret.value = "existing"
    /\ ret.task = result
    /\ should_cancel
    /\ tasks[result].hooks = <<"start">>

\* Task h returns in this step because the stream of worker.predict has
\* ended, not for a shape violation.
Exhausted(h) ==
    /\ h \in DOMAIN tasks /\ h \in DOMAIN tasks'
    /\ tasks[h].kind = "predict"
    /\ tasks[h].pc # "done"
    /\ tasks'[h].pc = "done"
    /\ tasks'[h].outcome = "returned"
    /\ tasks'[h].invoked
    /\ ~ShapeViolation(h)

\* C18: a predict task whose stream ends without a Done event and without
\* a shape violation returns with the status still processing, without a
\* completion time and without a "completed" notification; the callbacks
\* of a task that has returned leave the shutdown event as it was.
C18_Exhausted ==
    [][\A h \in DOMAIN tasks :
        /\ (Exhausted(h) /\ ~tasks'[h].done_seen) =>
              /\ tasks'[h].p.status = "processing"
              /\ ~tasks'[h].p.completed_at
              /\ \A i \in 1..Len(tasks'[h].hooks) :
                    tasks'[h].hooks[i] # "completed"
        /\ (tasks[h].outcome = "returned" /\ Callbacks(h)) =>
              shutdown_event' = shutdown_event]_vars

\* A job whose stream held a log message and an output and then ended has
\* returned, still processing, and its callbacks ran.
C18_Witness ==
    /\ StoredDone
    /\ tasks[result].outcome = "returned"
    /\ tasks[result].invoked
    /\ ~tasks[result].done_seen
    /\ tasks[result].p.status = "processing"
    /\ tasks[result].p.logs = <<LogMessage>>
    /\ tasks[result].p.output = Value("a")
    /\ tasks[result].callbacks = "ran"
    /\ shutdown_event = "clear"

\* C19: worker.cancel() is called for a job only if cancel has set the
\* flag while that job was outstanding, and the flag is set while a job is
\* outstanding only if cancel has set it for that job: a flag that an
\* earlier job left set is cleared when predict admits the next one.
C19_NoCarryOver ==
    \A h \in DOMAIN tasks :
        tasks[h].kind = "predict" =>
            /\ tasks[h].cancels > 0 => tasks[h].asked
            /\ (h = result /\ tasks[h].pc # "done" /\ should_cancel) =>
                  tasks[h].asked

\* A job that was admitted while the flag of an earlier job was still set
\* has taken an event without a call of worker.cancel().
C19_Witness ==
    /\ result # NoTask
    /\ tasks[result].kind = "predict"
    /\ tasks[result].stale_cancel
    /\ tasks[result].event # NoEvent
    /\ tasks[result].cancels = 0
    /\ ~tasks[result].asked

\* C20: whenever a task is outstanding the runner stores a response, so
\* that the assertion of cancel holds, and cancel ends in one of three
\* ways: it returns without effect, raises UnknownPredictionError, or sets
\* the flag.
C20_CancelOutcomes ==
    /\ Outstanding => response # NoTask
    /\ ret.op = "cancel" =>
          ret.value \in {"None", "UnknownPredictionError", "set"}

====
